---- MODULE Spec2Model ----
(***************************************************************************)
(* Model of the seat-booking service of the repository:                    *)
(* BookingService.bookSeat (src/unnamed/part_001, lines 113-142) running   *)
(* as concurrent database transactions over the tables system_status and   *)
(* bookings (lines 70-83).                                                 *)
(*                                                                         *)
(* The database state is modelled as its committed state (available_seats, *)
(* bookings, the SERIAL sequence nextId) plus, per call, the uncommitted   *)
(* writes of the call's transaction (wSeats, wRows) and the row lock that  *)
(* SELECT ... FOR UPDATE takes on system_status row 1 (lockHolder).        *)
(***************************************************************************)
EXTENDS Integers, FiniteSets, Sequences, Bags

\* ---------------------------------------------------------------- bounds
\* The code initialises system_status with 100 seats; the model draws the
\* capacity from 1..MaxCapacity.
MaxCapacity == 2
\* Number of distinct user ids.
NumUsers == 3
\* Number of bookSeat calls issued during one behaviour.
NumCalls == 3
\* Number of import jobs and of distinct normalized emails.
NumJobs == 2
NumEmails == 2
\* Number of POST /users requests on their way or in Auth-Backend at a time.
MaxInFlight == 2
\* Number of callers that give up on their bookSeat call.
MaxAbandoned == 1
\* Number of CSV rows of one upload.
MaxRows == 4

Users == 1..NumUsers
Jobs == 1..NumJobs
Emails == 1..NumEmails
\* The email column of a CSV row: every normalized email has two spellings.
RawEmails == 1..(2 * NumEmails)
Rows == [email : RawEmails, valid : BOOLEAN]
\* The retry limit of the worker's catch block.
MaxAttempts == 5
\* res.status values of POST /users; NoResponse is an absent kv entry.
Created == 201
Conflict == 409
Unavailable == 503
ServerError == 500
NoResponse == 0
Calls == 1..NumCalls
\* Temperatures lie within TempSpan degrees of the initial target; the
\* hysteresis argument lies within MaxHysteresis half degrees of zero.
TempSpan == 4
MaxHysteresis == 2
\* Thermostat defaults: minTemp = 10, maxTemp = 30, currentTemp = 20,
\* targetTemp = 22, and hysteresis = 0.5, which is 1 half degree.
DefaultMinTemp == 10
DefaultMaxTemp == 30
DefaultHysteresis == 1
InitialCurrentTemp == 20
InitialTargetTemp == 22
NoCall == 0
\* bookSeat takes any string: the empty string is a user id like the others.
EmptyUserId == 0

VARIABLES
    capacity,        \* the number system_status was initialised with
    available_seats, \* committed system_status.available_seats (row id = 1)
    bookings,        \* committed rows of bookings: records [id, user_id]
    nextId,          \* next value of the SERIAL sequence behind bookings.id
    lockHolder,      \* the call whose transaction holds the row lock, or NoCall
    pc,              \* position of each call inside bookSeat
    userId,          \* the argument of each call
    seatStatus,      \* per call: the available_seats value read FOR UPDATE
    alreadyBooked,   \* per call: the rows returned by the duplicate query
    wSeats,          \* per call: uncommitted value written to available_seats
    wRows,           \* per call: uncommitted rows inserted into bookings
    result,          \* per call: the outcome of bookSeat
    doneBefore,      \* per call: the calls that had returned when it was issued
    commitLog,       \* ids of the committed booking rows, in commit order
    releaseResult,   \* outcome of the last release call
    committed,       \* per call: the counter and row id its commit produced
    emitState,       \* per call: "none", "published" or "failed"
    published,       \* the messages published on seat_updates, in order
    snapshot,        \* the last answer of the status query, or NoSnapshot
    \* CSV user import (src/system_design/user-creation.md)
    jobStatus,       \* per job: jobs.status, "NONE" before the job exists
    jobAttempts,     \* per job: jobs.attempts
    jobEmail,        \* per job: jobs.normalized_email
    queue,           \* per job: messages {jobId} waiting in userCreationQueue
    usersIndex,      \* the normalized emails in users_index
    wpc,             \* position of the worker callback
    wjob,            \* the job the worker is handling
    wjobAttempts,    \* job.attempts as read by db.get at the start
    authCalls,       \* per job: POST /users requests sent for it so far
    emailsSent,      \* per job: welcome emails sent
    processing,      \* Auth-Backend: the processing flag
    authUsers,       \* Auth-Backend: rows of auth_users per normalized email
    kv,              \* Auth-Backend: stored response per Idempotency-Key
    reqs,            \* bag of POST /users requests on their way or in Auth-Backend
    kvLog,           \* history: the response first stored for each key
    \* POST /uploads (src/system_design/user-creation.md)
    uploadStatus,    \* uploads.status, "NONE" before the upload exists
    seen,            \* the Set seen of the upload
    counts,          \* the counters of the upload
    rowsRead,        \* rows parseCSV has yielded so far
    lastRow,         \* the row the loop handled last
    \* callers of bookSeat
    abandoned,       \* the calls whose caller has stopped waiting
    \* Thermostat (src/thermostat.ts)
    minTemp,
    maxTemp,
    hysteresis,      \* in half degrees: twice the field's value
    currentTemp,
    targetTemp,
    heaterOn,        \* heater.isOn
    coolerOn,        \* cooler.isOn
    lastCall         \* the method of the Thermostat that returned last

bookingVars == <<capacity, available_seats, bookings, nextId, lockHolder, pc,
                 userId, seatStatus, alreadyBooked, wSeats, wRows, result,
                 doneBefore, commitLog, releaseResult>>
eventVars == <<committed, emitState, published>>
readVars == <<snapshot>>
jobVars == <<jobStatus, jobAttempts, jobEmail, queue, usersIndex>>
workerVars == <<wpc, wjob, wjobAttempts, authCalls, emailsSent>>
authVars == <<processing, authUsers, kv, reqs, kvLog>>
importVars == <<jobVars, workerVars, authVars>>
uploadVars == <<uploadStatus, seen, counts, rowsRead, lastRow>>
callerVars == <<abandoned>>
thermoVars == <<minTemp, maxTemp, hysteresis, currentTemp, targetTemp,
                heaterOn, coolerOn, lastCall>>
sideVars == <<importVars, uploadVars, callerVars, thermoVars>>

vars == <<bookingVars, eventVars, readVars, sideVars>>

dbVars == <<available_seats, bookings, nextId, commitLog>>
txVars == <<seatStatus, alreadyBooked, wSeats, wRows>>

\* ------------------------------------------------------------ outcomes
\* bookSeat resolves with "Booking Successful" or rejects with one of the
\* errors below; a failing statement surfaces as "Try again later".
BookingSuccessful == "Booking Successful"
SoldOutError == "Sold Out"
AlreadyBookedError == "Already Booked"
TryAgainLater == "Try again later"
NoResult == "none"
NoSnapshot == [capacity |-> 0, remaining |-> 0, allocatedCount |-> 0,
               allocated |-> {}]

\* ------------------------------------------------------ pure helpers
\* if (seatStatus.available_seats <= 0) throw new Error("Sold Out")
SoldOut_strict(seats) == seats < 0
SoldOut(seats) == seats <= 0

\* The lookup of bookings by user_id (the UNIQUE index on user_id): it serves
\* both SELECT 1 FROM bookings WHERE user_id = ? and the uniqueness check of
\* INSERT.
RowsByUserId_none(rows, u) == {}
RowsByUserId(rows, u) == {b \in rows : b.user_id = u}

\* if (alreadyBooked.length > 0) throw new Error("Already Booked")
IsAlreadyBooked(rows) == Cardinality(rows) > 0

\* UPDATE system_status SET available_seats = available_seats - 1
UpdatedSeats_same(seats) == seats
UpdatedSeats(seats) == seats - 1

\* SELECT ... FOR UPDATE waits until no other transaction holds the row lock.
LockFree_nolock == TRUE
LockFree == lockHolder = NoCall

\* bookings.id SERIAL: the id given to an inserted row.
AssignedId_count == Cardinality(bookings) + 1
AssignedId == nextId

\* The committed value of available_seats after the transaction of call c
\* commits, and after it rolls back.
CommitSeats(c) == IF wSeats[c] = {} THEN available_seats
                  ELSE CHOOSE v \in wSeats[c] : TRUE
RollbackSeats_autocommit(c) == CommitSeats(c)
RollbackSeats(c) == available_seats

\* ------------------------------------------------------------ initial state
InitBooking ==
    /\ capacity \in 1..MaxCapacity
    /\ available_seats = capacity
    /\ bookings = {}
    /\ nextId = 1
    /\ lockHolder = NoCall
    /\ pc = [c \in Calls |-> "idle"]
    /\ userId = [c \in Calls |-> 1]
    /\ seatStatus = [c \in Calls |-> 0]
    /\ alreadyBooked = [c \in Calls |-> {}]
    /\ wSeats = [c \in Calls |-> {}]
    /\ wRows = [c \in Calls |-> {}]
    /\ result = [c \in Calls |-> NoResult]
    /\ doneBefore = [c \in Calls |-> {}]
    /\ commitLog = <<>>
    /\ releaseResult = NoResult

InitEvents ==
    /\ committed = [c \in Calls |-> [available |-> 0, sequence |-> 0]]
    /\ emitState = [c \in Calls |-> "none"]
    /\ published = <<>>

InitRead == snapshot = NoSnapshot

InitImportFrom(index) ==
    /\ jobStatus = [j \in Jobs |-> "NONE"]
    /\ jobAttempts = [j \in Jobs |-> 0]
    /\ jobEmail = [j \in Jobs |-> 1]
    /\ queue = [j \in Jobs |-> 0]
    /\ usersIndex = index
    /\ wpc = "idle"
    /\ wjob = 1
    /\ wjobAttempts = 0
    /\ authCalls = [j \in Jobs |-> 0]
    /\ emailsSent = [j \in Jobs |-> 0]
    /\ processing = FALSE
    /\ authUsers = [e \in Emails |-> 0]
    /\ kv = [j \in Jobs |-> 0]
    /\ reqs = EmptyBag
    /\ kvLog = [j \in Jobs |-> 0]

InitImport == InitImportFrom({})

initCounts ==
    [invalid |-> 0, duplicate_in_batch |-> 0, duplicate_historical |-> 0,
     enqueued |-> 0]

NoRow == [email |-> 0, valid |-> FALSE]

InitUpload ==
    /\ uploadStatus = "NONE"
    /\ seen = {}
    /\ counts = initCounts
    /\ rowsRead = 0
    /\ lastRow = NoRow

InitCallers == abandoned = {}

\* new Thermostat(heater, cooler, minTemp, maxTemp, hysteresis) with a new
\* Heater and a new Cooler; hysteresis2 is twice the hysteresis.
Constructed(min, max, hysteresis2) ==
    /\ minTemp = min
    /\ maxTemp = max
    /\ hysteresis = hysteresis2
    /\ currentTemp = InitialCurrentTemp
    /\ targetTemp = InitialTargetTemp
    /\ heaterOn = FALSE
    /\ coolerOn = FALSE
    /\ lastCall = "constructor"

\* new Thermostat(heater, cooler)
InitThermo == Constructed(DefaultMinTemp, DefaultMaxTemp, DefaultHysteresis)

InitSide == InitImport /\ InitUpload /\ InitCallers /\ InitThermo

Init == InitBooking /\ InitEvents /\ InitRead /\ InitSide

Done == {c \in Calls : pc[c] = "done"}

\* The transaction of call c ends (commit or rollback): its locals are
\* dropped, the row lock is released and bookSeat settles with outcome r.
Finish_keeplock(c, r) ==
    /\ pc' = [pc EXCEPT ![c] = "done"]
    /\ result' = [result EXCEPT ![c] = r]
    /\ lockHolder' = lockHolder
    /\ seatStatus' = [seatStatus EXCEPT ![c] = 0]
    /\ alreadyBooked' = [alreadyBooked EXCEPT ![c] = {}]
    /\ wSeats' = [wSeats EXCEPT ![c] = {}]
    /\ wRows' = [wRows EXCEPT ![c] = {}]
Finish(c, r) ==
    /\ pc' = [pc EXCEPT ![c] = "done"]
    /\ result' = [result EXCEPT ![c] = r]
    /\ lockHolder' = IF lockHolder = c THEN NoCall ELSE lockHolder
    /\ seatStatus' = [seatStatus EXCEPT ![c] = 0]
    /\ alreadyBooked' = [alreadyBooked EXCEPT ![c] = {}]
    /\ wSeats' = [wSeats EXCEPT ![c] = {}]
    /\ wRows' = [wRows EXCEPT ![c] = {}]

\* A thrown error rolls the transaction back.
Rollback(c, r) ==
    /\ Finish(c, r)
    /\ available_seats' = RollbackSeats(c)
    /\ UNCHANGED <<bookings, nextId, commitLog>>

\* ------------------------------------------------------------ bookSeat
\* The calls issued so far and the user ids they carry.
Issued == {c \in Calls : pc[c] # "idle"}
UsedUsers == {userId[c] : c \in Issued}

\* bookSeat(userId) is called: db.transaction opens a transaction. Call slots
\* and user ids are interchangeable names: slots are taken in index order and
\* a user id not seen before is the smallest unused one.
Begin(c, u) ==
    /\ pc[c] = "idle"
    /\ \A d \in Calls : d < c => d \in Issued
    /\ \A v \in Users : v < u => v \in UsedUsers
    /\ pc' = [pc EXCEPT ![c] = "begin"]
    /\ userId' = [userId EXCEPT ![c] = u]
    /\ doneBefore' = [doneBefore EXCEPT ![c] = Done]
    /\ UNCHANGED <<capacity, dbVars, lockHolder, txVars, result, releaseResult>>

\* SELECT available_seats FROM system_status WHERE id = 1 FOR UPDATE
SelectForUpdate(c) ==
    /\ pc[c] = "begin"
    /\ LockFree
    /\ lockHolder' = c
    /\ seatStatus' = [seatStatus EXCEPT ![c] = available_seats]
    /\ pc' = [pc EXCEPT ![c] = "seats_read"]
    /\ UNCHANGED <<capacity, dbVars, userId, alreadyBooked, wSeats, wRows,
                   result, doneBefore, releaseResult>>

\* if (available_seats <= 0) throw "Sold Out"
ThrowSoldOut(c) ==
    /\ pc[c] = "seats_read"
    /\ SoldOut(seatStatus[c])
    /\ Rollback(c, SoldOutError)
    /\ UNCHANGED <<capacity, userId, doneBefore, releaseResult>>

\* SELECT 1 FROM bookings WHERE user_id = ?
SelectBooked(c) ==
    /\ pc[c] = "seats_read"
    /\ ~SoldOut(seatStatus[c])
    /\ alreadyBooked' = [alreadyBooked EXCEPT
                           ![c] = RowsByUserId(bookings \cup wRows[c], userId[c])]
    /\ pc' = [pc EXCEPT ![c] = "booked_read"]
    /\ UNCHANGED <<capacity, dbVars, lockHolder, userId, seatStatus, wSeats,
                   wRows, result, doneBefore, releaseResult>>

\* if (alreadyBooked.length > 0) throw "Already Booked"
ThrowAlreadyBooked(c) ==
    /\ pc[c] = "booked_read"
    /\ IsAlreadyBooked(alreadyBooked[c])
    /\ Rollback(c, AlreadyBookedError)
    /\ UNCHANGED <<capacity, userId, doneBefore, releaseResult>>

\* UPDATE system_status SET available_seats = available_seats - 1 WHERE id = 1
UpdateSeats(c) ==
    /\ pc[c] = "booked_read"
    /\ ~IsAlreadyBooked(alreadyBooked[c])
    /\ wSeats' = [wSeats EXCEPT ![c] = {UpdatedSeats(CommitSeats(c))}]
    /\ pc' = [pc EXCEPT ![c] = "updated"]
    /\ UNCHANGED <<capacity, dbVars, lockHolder, userId, seatStatus,
                   alreadyBooked, wRows, result, doneBefore, releaseResult>>

\* A row with this user_id that another open transaction has inserted: the
\* INSERT waits for that transaction to end.
PendingElsewhere(c) ==
    \E d \in Calls \ {c} : RowsByUserId(wRows[d], userId[c]) # {}

\* INSERT INTO bookings (user_id) VALUES (?), accepted by the UNIQUE index
InsertBooking(c) ==
    /\ pc[c] = "updated"
    /\ ~PendingElsewhere(c)
    /\ RowsByUserId(bookings, userId[c]) = {}
    /\ wRows' = [wRows EXCEPT ![c] = {[id |-> AssignedId, user_id |-> userId[c]]}]
    /\ nextId' = nextId + 1
    /\ pc' = [pc EXCEPT ![c] = "inserted"]
    /\ UNCHANGED <<capacity, available_seats, bookings, commitLog, lockHolder,
                   userId, seatStatus, alreadyBooked, wSeats, result,
                   doneBefore, releaseResult>>

\* return "Booking Successful": db.transaction commits.
Commit(c) ==
    /\ pc[c] = "inserted"
    /\ Finish(c, BookingSuccessful)
    /\ available_seats' = CommitSeats(c)
    /\ bookings' = bookings \cup wRows[c]
    /\ commitLog' = commitLog \o
          (IF wRows[c] = {} THEN <<>> ELSE <<(CHOOSE r \in wRows[c] : TRUE).id>>)
    /\ UNCHANGED <<capacity, nextId, userId, doneBefore, releaseResult>>

\* The INSERT statement fails (Transaction/DB failure, or a rejection by the
\* UNIQUE index): the error rolls the transaction back after the UPDATE was
\* already executed. The sequence value may or may not have been drawn.
InsertFails(c, drawn) ==
    /\ pc[c] = "updated"
    /\ Finish(c, TryAgainLater)
    /\ available_seats' = RollbackSeats(c)
    /\ nextId' = IF drawn THEN nextId + 1 ELSE nextId
    /\ UNCHANGED <<capacity, bookings, commitLog, userId, doneBefore,
                   releaseResult>>

\* ------------------------------------------------------------ release
\* release(requesterId) of the specification: one indivisible exclusive
\* section that removes the record and increments the counter.
Release(u) ==
    /\ lockHolder = NoCall
    /\ IF RowsByUserId(bookings, u) = {}
         THEN /\ releaseResult' = "NOT_FOUND"
              /\ UNCHANGED <<available_seats, bookings>>
         ELSE /\ releaseResult' = "RELEASED"
              /\ bookings' = bookings \ RowsByUserId(bookings, u)
              /\ available_seats' = available_seats + 1
    /\ UNCHANGED <<capacity, nextId, commitLog, lockHolder, pc, userId, txVars,
                   result, doneBefore>>

\* ------------------------------------------------------------ specifications
BookSeat(c) ==
    \/ SelectForUpdate(c)
    \/ ThrowSoldOut(c)
    \/ SelectBooked(c)
    \/ ThrowAlreadyBooked(c)
    \/ UpdateSeats(c)
    \/ InsertBooking(c)
    \/ Commit(c)

\* bookSeat calls over a database in which no statement fails.
Next ==
    /\ UNCHANGED <<eventVars, readVars, sideVars>>
    /\ \/ \E c \in Calls, u \in Users : Begin(c, u)
       \/ \E c \in Calls : BookSeat(c)

Spec == Init /\ [][Next]_vars

\* bookSeat calls over a database whose INSERT may fail.
NextFault ==
    /\ UNCHANGED <<eventVars, readVars, sideVars>>
    /\ \/ \E c \in Calls, u \in Users : Begin(c, u)
       \/ \E c \in Calls : BookSeat(c)
       \/ \E c \in Calls, drawn \in BOOLEAN : InsertFails(c, drawn)

SpecFault == Init /\ [][NextFault]_vars

\* bookSeat calls, failing INSERTs and the release capability.
NextRelease ==
    /\ UNCHANGED <<eventVars, readVars, sideVars>>
    /\ \/ \E c \in Calls, u \in Users : Begin(c, u)
       \/ \E c \in Calls : BookSeat(c)
       \/ \E c \in Calls, drawn \in BOOLEAN : InsertFails(c, drawn)
       \/ \E u \in Users : Release(u)

SpecRelease == Init /\ [][NextRelease]_vars

\* ------------------------------------------------------------ events
\* "broadcast updates after DB changes": broadcastAvailability is called for
\* a call once its transaction has committed, at most once per call.
MayPublish_any(c) == pc[c] = "done" /\ emitState[c] = "none"
MayPublish(c) ==
    pc[c] = "done" /\ result[c] = BookingSuccessful /\ emitState[c] = "none"

\* broadcastAvailability neither awaits redisPub.publish nor hands its result
\* back: the outcome bookSeat already gave stays what it was.
ResultAfterPublish_propagated(c, ok) == IF ok THEN result[c] ELSE TryAgainLater
ResultAfterPublish(c, ok) == result[c]

\* The commit of call c, which hands the counter it wrote and the id of the
\* row it inserted to the caller (the count that is broadcast afterwards).
CommitConfirmed(c) ==
    /\ Commit(c)
    /\ committed' = [committed EXCEPT ![c] =
          [available |-> CommitSeats(c),
           sequence |-> IF wRows[c] = {} THEN 0
                        ELSE (CHOOSE r \in wRows[c] : TRUE).id]]
    /\ UNCHANGED <<emitState, published>>

\* broadcastAvailability(count): redisPub.publish("seat_updates", payload).
\* The payload of the code is {type, available}; call and sequence name the
\* commit the message belongs to.
Publish(c) ==
    /\ MayPublish(c)
    /\ published' = Append(published,
          [call |-> c, available |-> committed[c].available,
           sequence |-> committed[c].sequence])
    /\ emitState' = [emitState EXCEPT ![c] = "published"]
    /\ result' = [result EXCEPT ![c] = ResultAfterPublish(c, TRUE)]
    /\ UNCHANGED <<capacity, dbVars, lockHolder, pc, userId, txVars,
                   doneBefore, releaseResult, committed>>

\* redisPub.publish fails: no message reaches the channel.
PublishFails(c) ==
    /\ MayPublish(c)
    /\ emitState' = [emitState EXCEPT ![c] = "failed"]
    /\ result' = [result EXCEPT ![c] = ResultAfterPublish(c, FALSE)]
    /\ UNCHANGED <<capacity, dbVars, lockHolder, pc, userId, txVars,
                   doneBefore, releaseResult, committed, published>>

\* bookSeat calls, each followed by its broadcast.
NextEvents ==
    /\ UNCHANGED <<readVars, sideVars>>
    /\ \/ /\ UNCHANGED eventVars
          /\ \/ \E c \in Calls, u \in Users : Begin(c, u)
             \/ \E c \in Calls : SelectForUpdate(c)
             \/ \E c \in Calls : ThrowSoldOut(c)
             \/ \E c \in Calls : SelectBooked(c)
             \/ \E c \in Calls : ThrowAlreadyBooked(c)
             \/ \E c \in Calls : UpdateSeats(c)
             \/ \E c \in Calls : InsertBooking(c)
       \/ \E c \in Calls : CommitConfirmed(c)
       \/ \E c \in Calls : Publish(c)
       \/ \E c \in Calls : PublishFails(c)

SpecEvents == Init /\ [][NextEvents]_vars

\* ------------------------------------------------------------ round trip
\* bookSeat calls that hand back what their commit produced, and release,
\* over a database in which no statement fails.
NextRoundTrip ==
    /\ UNCHANGED <<readVars, sideVars>>
    /\ \/ /\ UNCHANGED eventVars
          /\ \/ \E c \in Calls, u \in Users : Begin(c, u)
             \/ \E c \in Calls : SelectForUpdate(c)
             \/ \E c \in Calls : ThrowSoldOut(c)
             \/ \E c \in Calls : SelectBooked(c)
             \/ \E c \in Calls : ThrowAlreadyBooked(c)
             \/ \E c \in Calls : UpdateSeats(c)
             \/ \E c \in Calls : InsertBooking(c)
             \/ \E u \in Users : Release(u)
       \/ \E c \in Calls : CommitConfirmed(c)

SpecRoundTrip == Init /\ [][NextRoundTrip]_vars

\* ------------------------------------------------------------ status query
\* What a statement outside the writing transaction reads: the writes of
\* bookSeat are made inside db.transaction, so only committed values show.
VisibleSeats_dirty ==
    IF lockHolder # NoCall /\ wSeats[lockHolder] # {}
      THEN CHOOSE v \in wSeats[lockHolder] : TRUE
      ELSE available_seats
VisibleSeats == available_seats
VisibleRows == bookings

\* snapshot() / getRemaining() / isAllocated() of the specification: one read
\* of the counter and the rows at a single instant.
Snapshot ==
    /\ snapshot' = [capacity |-> capacity,
                    remaining |-> VisibleSeats,
                    allocatedCount |-> Cardinality(VisibleRows),
                    allocated |-> {b.user_id : b \in VisibleRows}]
    /\ UNCHANGED <<bookingVars, eventVars>>

\* bookSeat calls, failing INSERTs and status queries at any moment.
NextRead ==
    /\ UNCHANGED sideVars
    /\ \/ /\ UNCHANGED <<eventVars, readVars>>
          /\ \/ \E c \in Calls, u \in Users : Begin(c, u)
             \/ \E c \in Calls : BookSeat(c)
             \/ \E c \in Calls, drawn \in BOOLEAN : InsertFails(c, drawn)
       \/ Snapshot

SpecRead == Init /\ [][NextRead]_vars

\* ------------------------------------------------------------ any user id
\* bookSeat("") : the call is issued with the empty string.
BeginEmpty(c) == Begin(c, EmptyUserId)

\* bookSeat calls with any string as user id, the empty one included.
NextInvalid ==
    /\ UNCHANGED <<eventVars, readVars, sideVars>>
    /\ \/ \E c \in Calls, u \in Users : Begin(c, u)
       \/ \E c \in Calls : BeginEmpty(c)
       \/ \E c \in Calls : BookSeat(c)
       \/ \E c \in Calls, drawn \in BOOLEAN : InsertFails(c, drawn)

SpecInvalid == Init /\ [][NextInvalid]_vars

\* ------------------------------------------------------------ user import
\* jobs of one or several uploads: the idempotency key
\* sha256(uploadId + ':' + normalized_email) is distinct for every job, so a
\* key is identified with its job.
Enqueue(j, e) ==
    /\ jobStatus[j] = "NONE"
    /\ \A i \in Jobs : i < j => jobStatus[i] # "NONE"
    /\ \A f \in Emails : f < e =>
           \E i \in Jobs : jobStatus[i] # "NONE" /\ jobEmail[i] = f
    /\ e \notin usersIndex
    /\ jobStatus' = [jobStatus EXCEPT ![j] = "ENQUEUED"]
    /\ jobEmail' = [jobEmail EXCEPT ![j] = e]
    /\ queue' = [queue EXCEPT ![j] = @ + 1]
    /\ UNCHANGED <<jobAttempts, usersIndex, workerVars, authVars>>

\* A POST /users request for job j as it leaves its sender.
Request(j, await) ==
    [job |-> j, stage |-> "sent", awaited |-> await, status |-> NoResponse]

\* Request r of the bag moves on as request q.
Moved(r, q) == (reqs (-) SetToBag({r})) (+) SetToBag({q})

\* Request r leaves the bag: its answer is consumed, or it is lost.
Removed(r) == reqs (-) SetToBag({r})

\* if (attempts < 5)
RetryAllowed_offbyone(attempts) == attempts <= MaxAttempts
RetryAllowed(attempts) == attempts < MaxAttempts

\* The callback returns: the worker is free, its local job is gone.
Return_stuck == UNCHANGED <<wpc, wjob, wjobAttempts>>
Return ==
    /\ wpc' = "idle"
    /\ wjob' = 1
    /\ wjobAttempts' = 0

\* The catch block: attempts is computed from the job as read at the start.
Catch ==
    /\ jobAttempts' = [jobAttempts EXCEPT ![wjob] = wjobAttempts + 1]
    /\ IF RetryAllowed(wjobAttempts + 1)
       THEN /\ queue' = [queue EXCEPT ![wjob] = @ + 1]
            /\ UNCHANGED jobStatus
       ELSE /\ jobStatus' = [jobStatus EXCEPT ![wjob] = "DLQ"]
            /\ UNCHANGED queue
    /\ Return

\* job.status in ['SUCCEEDED','DLQ']
IsFinished_never(status) == FALSE
IsFinished(status) == status \in {"SUCCEEDED", "DLQ"}

\* The worker takes a message: returns for a finished job, else marks the job
\* IN_PROGRESS and posts it to Auth-Backend.
WorkerPick(j) ==
    /\ wpc = "idle"
    /\ queue[j] > 0
    /\ queue' = [queue EXCEPT ![j] = @ - 1]
    /\ IF IsFinished(jobStatus[j])
       THEN UNCHANGED <<jobStatus, workerVars, reqs>>
       ELSE /\ jobStatus' = [jobStatus EXCEPT ![j] = "IN_PROGRESS"]
            /\ authCalls' = [authCalls EXCEPT ![j] = @ + 1]
            /\ reqs' = reqs (+) SetToBag({Request(j, TRUE)})
            /\ wpc' = "waiting"
            /\ wjob' = j
            /\ wjobAttempts' = jobAttempts[j]
            /\ UNCHANGED emailsSent
    /\ UNCHANGED <<jobAttempts, jobEmail, usersIndex>>
    /\ UNCHANGED <<processing, authUsers, kv, kvLog>>

\* http.post rejects (network error, timeoutMs): the request never arrived.
PostFails(r) ==
    /\ r.awaited /\ r.stage = "sent"
    /\ reqs' = Removed(r)
    /\ Catch
    /\ UNCHANGED <<jobEmail, usersIndex, authCalls, emailsSent>>
    /\ UNCHANGED <<processing, authUsers, kv, kvLog>>

\* res.status === 201
IsCreated_orconflict(status) == status \in {Created, Conflict}
IsCreated(status) == status = Created

WorkerOn201(r) ==
    /\ r.awaited /\ r.stage = "answered"
    /\ IsCreated(r.status)
    /\ reqs' = Removed(r)
    /\ usersIndex' = usersIndex \cup {jobEmail[wjob]}
    /\ jobStatus' = [jobStatus EXCEPT ![wjob] = "SUCCEEDED"]
    /\ wpc' = "email"
    /\ UNCHANGED <<jobAttempts, jobEmail, queue, wjob, wjobAttempts,
                   authCalls, emailsSent>>
    /\ UNCHANGED <<processing, authUsers, kv, kvLog>>

\* res.status === 409
WorkerOn409(r) ==
    /\ r.awaited /\ r.stage = "answered"
    /\ r.status = Conflict
    /\ reqs' = Removed(r)
    /\ jobStatus' = [jobStatus EXCEPT ![wjob] = "SUCCEEDED"]
    /\ Return
    /\ UNCHANGED <<jobAttempts, jobEmail, queue, usersIndex, authCalls,
                   emailsSent>>
    /\ UNCHANGED <<processing, authUsers, kv, kvLog>>

\* else throw new Error(`Unexpected status ${res.status}`)
WorkerOnError(r) ==
    /\ r.awaited /\ r.stage = "answered"
    /\ r.status \notin {Created, Conflict}
    /\ reqs' = Removed(r)
    /\ Catch
    /\ UNCHANGED <<jobEmail, usersIndex, authCalls, emailsSent>>
    /\ UNCHANGED <<processing, authUsers, kv, kvLog>>

\* await trySendEmail(job): the email is sent, or the failure is logged.
WorkerEmail(ok) ==
    /\ wpc = "email"
    /\ emailsSent' = [emailsSent EXCEPT ![wjob] = IF ok THEN @ + 1 ELSE @]
    /\ Return
    /\ UNCHANGED <<jobVars, authCalls, authVars>>

\* return resp: the answer to r is on its way back to the sender of r.
Respond(r, status) ==
    reqs' = Moved(r, [r EXCEPT !.stage = "answered", !.status = status])

\* if (processing)
AuthBusy_never == FALSE
AuthBusy == processing

\* db.exists('auth_users', { normalized_email: norm })
UserExists_never(e) == FALSE
UserExists(e) == authUsers[e] > 0

\* finally { processing = false }
FlagAfterFinally == FALSE

\* kv.set('idem:' + key, resp, ttl=24h)
KvSet(key, status) ==
    /\ kv' = [kv EXCEPT ![key] = status]
    /\ kvLog' = [kvLog EXCEPT ![key] = IF @ = NoResponse THEN status ELSE @]

\* if (kv.exists('idem:' + key)) return kv.get('idem:' + key)
AuthReplay(r) ==
    /\ r.stage = "sent"
    /\ kv[r.job] # NoResponse
    /\ Respond(r, kv[r.job])
    /\ UNCHANGED <<jobVars, workerVars, processing, authUsers, kv, kvLog>>

\* if (processing) return 503
AuthReject(r) ==
    /\ r.stage = "sent"
    /\ kv[r.job] = NoResponse
    /\ AuthBusy
    /\ Respond(r, Unavailable)
    /\ UNCHANGED <<jobVars, workerVars, processing, authUsers, kv, kvLog>>

\* processing = true
AuthAccept(r) ==
    /\ r.stage = "sent"
    /\ kv[r.job] = NoResponse
    /\ ~AuthBusy
    /\ processing' = TRUE
    /\ reqs' = Moved(r, [r EXCEPT !.stage = "accepted"])
    /\ UNCHANGED <<jobVars, workerVars, authUsers, kv, kvLog>>

\* The email exists: 409 is stored and returned, the flag is reset.
AuthConflict(r) ==
    /\ r.stage = "accepted"
    /\ UserExists(jobEmail[r.job])
    /\ KvSet(r.job, Conflict)
    /\ Respond(r, Conflict)
    /\ processing' = FlagAfterFinally
    /\ UNCHANGED <<jobVars, workerVars, authUsers>>

\* db.insert('auth_users', { normalized_email: norm, name })
AuthInsert(r) ==
    /\ r.stage = "accepted"
    /\ ~UserExists(jobEmail[r.job])
    /\ authUsers' = [authUsers EXCEPT ![jobEmail[r.job]] = @ + 1]
    /\ reqs' = Moved(r, [r EXCEPT !.stage = "inserted"])
    /\ UNCHANGED <<jobVars, workerVars, processing, kv, kvLog>>

\* 201 is stored and returned, the flag is reset.
AuthCreated(r) ==
    /\ r.stage = "inserted"
    /\ KvSet(r.job, Created)
    /\ Respond(r, Created)
    /\ processing' = FlagAfterFinally
    /\ UNCHANGED <<jobVars, workerVars, authUsers>>

\* A statement inside try throws: finally resets the flag, the request fails.
AuthFail(r) ==
    /\ r.stage \in {"accepted", "inserted"}
    /\ Respond(r, ServerError)
    /\ processing' = FlagAfterFinally
    /\ UNCHANGED <<jobVars, workerVars, authUsers, kv, kvLog>>

\* ttl=24h: a stored response expires.
KvExpire(key) ==
    /\ kv[key] # NoResponse
    /\ kv' = [kv EXCEPT ![key] = NoResponse]
    /\ UNCHANGED <<jobVars, workerVars, processing, authUsers, reqs, kvLog>>

\* A POST /users request with the key and payload of job j arrives from a
\* sender that is not waiting for this worker callback: a retry of a request
\* the worker gave up on, or the request it gave up on itself.
ClientPost(j) ==
    /\ jobStatus[j] # "NONE"
    /\ BagCardinality(reqs) < MaxInFlight
    /\ reqs' = reqs (+) SetToBag({Request(j, FALSE)})
    /\ UNCHANGED <<jobVars, workerVars, processing, authUsers, kv, kvLog>>

\* The answer to a request nobody waits for any more is dropped.
ClientReceives(r) ==
    /\ ~r.awaited /\ r.stage = "answered"
    /\ reqs' = Removed(r)
    /\ UNCHANGED <<jobVars, workerVars, processing, authUsers, kv, kvLog>>

\* The worker with its queue and Auth-Backend: every request is awaited, so
\* Auth-Backend handles one request at a time.
NextRetry ==
    /\ UNCHANGED <<bookingVars, eventVars, readVars, uploadVars, callerVars,
                   thermoVars>>
    /\ \/ \E j \in Jobs, e \in Emails : Enqueue(j, e)
       \/ \E j \in Jobs : WorkerPick(j)
       \/ \E r \in BagToSet(reqs) : PostFails(r)
       \/ \E r \in BagToSet(reqs) : WorkerOn201(r)
       \/ \E r \in BagToSet(reqs) : WorkerOn409(r)
       \/ \E r \in BagToSet(reqs) : WorkerOnError(r)
       \/ \E ok \in BOOLEAN : WorkerEmail(ok)
       \/ \E r \in BagToSet(reqs) : AuthAccept(r)
       \/ \E r \in BagToSet(reqs) : AuthConflict(r)
       \/ \E r \in BagToSet(reqs) : AuthInsert(r)
       \/ \E r \in BagToSet(reqs) : AuthCreated(r)
       \/ \E r \in BagToSet(reqs) : AuthFail(r)

\* Auth-Backend under any sequence of POST /users requests for the jobs'
\* keys, overlapping ones and repeated ones included.
NextAuth ==
    /\ UNCHANGED <<bookingVars, eventVars, readVars, uploadVars, callerVars,
                   thermoVars>>
    /\ \/ \E j \in Jobs, e \in Emails : Enqueue(j, e)
       \/ \E j \in Jobs : ClientPost(j)
       \/ \E r \in BagToSet(reqs) : ClientReceives(r)
       \/ \E r \in BagToSet(reqs) : AuthReplay(r)
       \/ \E r \in BagToSet(reqs) : AuthReject(r)
       \/ \E r \in BagToSet(reqs) : AuthAccept(r)
       \/ \E r \in BagToSet(reqs) : AuthConflict(r)
       \/ \E r \in BagToSet(reqs) : AuthInsert(r)
       \/ \E r \in BagToSet(reqs) : AuthCreated(r)
       \/ \E r \in BagToSet(reqs) : AuthFail(r)
       \/ \E key \in Jobs : KvExpire(key)

\* The import runs on its own; the seat pool keeps its initial state.
InitImportOnly == Init /\ capacity = 1

SpecRetry == InitImportOnly /\ [][NextRetry]_vars

SpecAuth == InitImportOnly /\ [][NextAuth]_vars

\* timeoutMs elapses before the answer of Auth-Backend arrives: http.post
\* rejects and the answer is dropped.
AnswerLost(r) ==
    /\ r.awaited /\ r.stage = "answered"
    /\ reqs' = Removed(r)
    /\ Catch
    /\ UNCHANGED <<jobEmail, usersIndex, authCalls, emailsSent>>
    /\ UNCHANGED <<processing, authUsers, kv, kvLog>>

\* The queue delivers once more the message of a job that was handled to
\* the end.
Redeliver(j) ==
    /\ jobStatus[j] \in {"SUCCEEDED", "DLQ"}
    /\ queue[j] = 0
    /\ queue' = [queue EXCEPT ![j] = @ + 1]
    /\ UNCHANGED <<jobStatus, jobAttempts, jobEmail, usersIndex, workerVars,
                   authVars>>

\* The worker with a queue that may deliver a message more than once and
\* with answers that may get lost.
NextDelivery ==
    /\ UNCHANGED <<bookingVars, eventVars, readVars, uploadVars, callerVars,
                   thermoVars>>
    /\ \/ \E j \in Jobs, e \in Emails : Enqueue(j, e)
       \/ \E j \in Jobs : Redeliver(j)
       \/ \E j \in Jobs : WorkerPick(j)
       \/ \E r \in BagToSet(reqs) : PostFails(r)
       \/ \E r \in BagToSet(reqs) : AnswerLost(r)
       \/ \E r \in BagToSet(reqs) : WorkerOn201(r)
       \/ \E r \in BagToSet(reqs) : WorkerOn409(r)
       \/ \E ok \in BOOLEAN : WorkerEmail(ok)
       \/ \E r \in BagToSet(reqs) : AuthReplay(r)
       \/ \E r \in BagToSet(reqs) : AuthAccept(r)
       \/ \E r \in BagToSet(reqs) : AuthConflict(r)
       \/ \E r \in BagToSet(reqs) : AuthInsert(r)
       \/ \E r \in BagToSet(reqs) : AuthCreated(r)

SpecDelivery == InitImportOnly /\ [][NextDelivery]_vars

\* A step the worker or Auth-Backend takes by itself: the queue hands a
\* message to the idle worker, Auth-Backend goes on with the request it has,
\* the worker goes on with the answer it got.
ProgressStep ==
    /\ UNCHANGED <<bookingVars, eventVars, readVars, uploadVars, callerVars,
                   thermoVars>>
    /\ \/ \E j \in Jobs : WorkerPick(j)
       \/ \E r \in BagToSet(reqs) : WorkerOn201(r)
       \/ \E r \in BagToSet(reqs) : WorkerOn409(r)
       \/ \E r \in BagToSet(reqs) : WorkerOnError(r)
       \/ \E ok \in BOOLEAN : WorkerEmail(ok)
       \/ \E r \in BagToSet(reqs) : AuthAccept(r)
       \/ \E r \in BagToSet(reqs) : AuthConflict(r)
       \/ \E r \in BagToSet(reqs) : AuthInsert(r)
       \/ \E r \in BagToSet(reqs) : AuthCreated(r)

\* The worker with failing calls, under a queue that keeps delivering and
\* services that keep running.
SpecProgress == InitImportOnly /\ [][NextRetry]_vars /\ WF_vars(ProgressStep)

\* ------------------------------------------------------------ upload
\* normalizeEmail: the spellings of one address map to one normalized email.
normalizeEmail(email) == ((email - 1) % NumEmails) + 1

\* validateRow(row): the list of errors is empty for a valid row.
HasErrors(row) == ~row.valid

\* if (seen.has(normalized_email))
SeenHas_never(normalized_email) == FALSE
SeenHas(normalized_email) == normalized_email \in seen

\* if (db.exists('users_index', { normalized_email }))
IndexHas(normalized_email) == normalized_email \in usersIndex

\* POST /uploads: the uploads row is inserted, seen and counts are fresh.
UploadStart ==
    /\ uploadStatus = "NONE"
    /\ uploadStatus' = "PENDING"
    /\ seen' = {}
    /\ counts' = initCounts
    /\ UNCHANGED <<rowsRead, lastRow, importVars>>

\* db.insert('jobs', ...); enqueue(...); counts.enqueued++
InsertJob(normalized_email) ==
    \E j \in Jobs :
        /\ jobStatus[j] = "NONE"
        /\ \A i \in Jobs : i < j => jobStatus[i] # "NONE"
        /\ jobStatus' = [jobStatus EXCEPT ![j] = "ENQUEUED"]
        /\ jobEmail' = [jobEmail EXCEPT ![j] = normalized_email]
        /\ queue' = [queue EXCEPT ![j] = @ + 1]
        /\ counts' = [counts EXCEPT !.enqueued = @ + 1]

\* One iteration of the loop over parseCSV(fileStream).
UploadRow(row) ==
    /\ uploadStatus = "PENDING"
    /\ rowsRead < MaxRows
    /\ rowsRead' = rowsRead + 1
    /\ lastRow' = row
    /\ LET normalized_email == normalizeEmail(row.email) IN
       IF HasErrors(row)
       THEN /\ counts' = [counts EXCEPT !.invalid = @ + 1]
            /\ UNCHANGED <<seen, jobStatus, jobEmail, queue>>
       ELSE IF SeenHas(normalized_email)
       THEN /\ counts' = [counts EXCEPT !.duplicate_in_batch = @ + 1]
            /\ UNCHANGED <<seen, jobStatus, jobEmail, queue>>
       ELSE /\ seen' = seen \cup {normalized_email}
            /\ IF IndexHas(normalized_email)
               THEN /\ counts' = [counts EXCEPT !.duplicate_historical = @ + 1]
                    /\ UNCHANGED <<jobStatus, jobEmail, queue>>
               ELSE InsertJob(normalized_email)
    /\ UNCHANGED <<uploadStatus, jobAttempts, usersIndex, workerVars, authVars>>

\* db.update('uploads', ..., { status: 'PROCESSING', totals: counts })
UploadFinish ==
    /\ uploadStatus = "PENDING"
    /\ uploadStatus' = "PROCESSING"
    /\ UNCHANGED <<seen, counts, rowsRead, lastRow, importVars>>

NextUpload ==
    /\ UNCHANGED <<bookingVars, eventVars, readVars, callerVars, thermoVars>>
    /\ \/ UploadStart
       \/ \E row \in Rows : UploadRow(row)
       \/ UploadFinish

\* One upload of any CSV file; users_index holds the emails that earlier
\* uploads created.
InitUploadOnly ==
    /\ InitBooking /\ capacity = 1
    /\ InitEvents /\ InitRead /\ InitUpload /\ InitCallers /\ InitThermo
    /\ \E index \in SUBSET Emails : InitImportFrom(index)

SpecUpload == InitUploadOnly /\ [][NextUpload]_vars

\* ------------------------------------------------------------ thermostat
Temps == (InitialTargetTemp - TempSpan)..(InitialTargetTemp + TempSpan)
Hystereses == (0 - MaxHysteresis)..MaxHysteresis

\* Math.max, Math.min
max(a, b) == IF a >= b THEN a ELSE b
min(a, b) == IF a <= b THEN a ELSE b

\* Device.on(), Device.off(): the value of _isOn after the call.
on(isOn) == IF ~isOn THEN TRUE ELSE isOn
off_noop(isOn) == isOn
off(isOn) == IF isOn THEN FALSE ELSE isOn

\* this.currentTemp < this.targetTemp - this.hysteresis, in half degrees
TooCold(t) == 2 * t < 2 * targetTemp - hysteresis
\* this.currentTemp > this.targetTemp + this.hysteresis, in half degrees
TooWarm(t) == 2 * t > 2 * targetTemp + hysteresis

\* Math.max(this.minTemp, Math.min(this.maxTemp, value))
Clamped(value) == max(minTemp, min(maxTemp, value))

setTargetTemperature(value) ==
    /\ targetTemp' = Clamped(value)
    /\ lastCall' = "setTargetTemperature"
    /\ UNCHANGED <<minTemp, maxTemp, hysteresis, currentTemp, heaterOn,
                   coolerOn>>

update(t) ==
    /\ currentTemp' = t
    /\ IF TooCold(t)
       THEN /\ coolerOn' = off(coolerOn)
            /\ heaterOn' = on(heaterOn)
       ELSE IF TooWarm(t)
       THEN /\ heaterOn' = off(heaterOn)
            /\ coolerOn' = on(coolerOn)
       ELSE /\ heaterOn' = off(heaterOn)
            /\ coolerOn' = off(coolerOn)
    /\ lastCall' = "update"
    /\ UNCHANGED <<minTemp, maxTemp, hysteresis, targetTemp>>

\* Another part of the system calls on() or off() of a device it shares with
\* the Thermostat.
Switch(heaterIsOn, coolerIsOn) ==
    /\ heaterOn' = heaterIsOn
    /\ coolerOn' = coolerIsOn
    /\ lastCall' = "device"
    /\ UNCHANGED <<minTemp, maxTemp, hysteresis, currentTemp, targetTemp>>

getStatus ==
    [currentTemp |-> currentTemp, targetTemp |-> targetTemp,
     heaterOn |-> heaterOn, coolerOn |-> coolerOn]

\* A Thermostat on a new Heater and a new Cooler, constructed with the
\* defaults or with any bounds minTemp <= maxTemp and any hysteresis.
InitThermostat ==
    /\ InitBooking /\ capacity = 1
    /\ InitEvents /\ InitRead /\ InitImport /\ InitUpload /\ InitCallers
    /\ \/ InitThermo
       \/ \E lo \in Temps, hi \in Temps, h \in Hystereses :
              lo <= hi /\ Constructed(lo, hi, h)

\* The Thermostat is the only one to switch its devices.
NextThermo ==
    /\ UNCHANGED <<bookingVars, eventVars, readVars, importVars, uploadVars,
                   callerVars>>
    /\ \/ \E value \in Temps : setTargetTemperature(value)
       \/ \E t \in Temps : update(t)

\* Other parts of the system switch the devices too.
NextThermoShared ==
    /\ UNCHANGED <<bookingVars, eventVars, readVars, importVars, uploadVars,
                   callerVars>>
    /\ \/ \E value \in Temps : setTargetTemperature(value)
       \/ \E t \in Temps : update(t)
       \/ \E heaterIsOn \in BOOLEAN, coolerIsOn \in BOOLEAN :
              Switch(heaterIsOn, coolerIsOn)

SpecThermo == InitThermostat /\ [][NextThermo]_vars

SpecThermoShared == InitThermostat /\ [][NextThermoShared]_vars

\* ------------------------------------------------------------ fairness
\* A step of the transaction of call c, as a step of the whole system.
BookSeatStep(c) == BookSeat(c) /\ UNCHANGED <<eventVars, readVars, sideVars>>

\* The database runs every open transaction on, and a call waiting for the
\* row lock gets it once the lock stays free.
Fairness == \A c \in Calls : WF_vars(BookSeatStep(c))

SpecFaultLive == Init /\ [][NextFault]_vars /\ Fairness

\* ------------------------------------------------------------ abandonment
\* The caller of call c stops waiting for its result (a request deadline, a
\* closed connection). bookSeat takes no cancellation signal: the promise and
\* its transaction run on.
Abandon(c) ==
    /\ pc[c] \notin {"idle", "done"}
    /\ c \notin abandoned
    /\ Cardinality(abandoned) < MaxAbandoned
    /\ abandoned' = abandoned \cup {c}
    /\ UNCHANGED <<bookingVars, eventVars, readVars, importVars, uploadVars,
                   thermoVars>>

\* bookSeat calls, and callers that give up at any point.
NextAbandon ==
    \/ /\ UNCHANGED <<eventVars, readVars, sideVars>>
       /\ \/ \E c \in Calls, u \in Users : Begin(c, u)
          \/ \E c \in Calls : BookSeat(c)
    \/ \E c \in Calls : Abandon(c)

SpecAbandon == Init /\ [][NextAbandon]_vars /\ Fairness

\* ------------------------------------------------------------ properties
Confirmed == {c \in Calls : result[c] = BookingSuccessful}
RejectedSoldOut == {c \in Calls : result[c] = SoldOutError}
RejectedBooked == {c \in Calls : result[c] = AlreadyBookedError}

\* Two calls overlap when neither had returned before the other was issued.
Concurrent(c, d) == c # d /\ c \notin doneBefore[d] /\ d \notin doneBefore[c]

\* available_seats once exactly the calls in P have run, none of them released.
SeatsAfter(P) == capacity - Cardinality(P \cap Confirmed)

\* C1: no overbooking. In every reachable state the committed counter
\* satisfies 0 <= available_seats <= capacity and the number of booking rows
\* never exceeds the capacity.
C1_NoOverbooking ==
    /\ 0 <= available_seats
    /\ available_seats <= capacity
    /\ Cardinality(bookings) <= capacity

\* C1 witness: the pool is exhausted and a further call was turned away.
C1_Witness ==
    /\ available_seats = 0
    /\ Cardinality(bookings) = capacity
    /\ RejectedSoldOut # {}

\* C2: counter consistency. After every operation (bookSeat, a failed INSERT,
\* release) the committed counter equals capacity minus the number of rows.
C2_CounterConsistent ==
    available_seats = capacity - Cardinality(bookings)

\* C2 witness: a booking was committed, another was released, one remains.
C2_Witness ==
    /\ releaseResult = "RELEASED"
    /\ bookings # {}
    /\ Len(commitLog) >= 2

\* C3: no double allocation. For every user id at most one call ever ends in
\* "Booking Successful" and at most one row of bookings carries the id.
C3_NoDoubleAllocation ==
    \A u \in Users :
        /\ Cardinality({c \in Confirmed : userId[c] = u}) <= 1
        /\ Cardinality({b \in bookings : b.user_id = u}) <= 1

\* C3 witness: two overlapping calls of one user, one confirmed, one rejected
\* as already booked.
C3_Witness ==
    \E c, d \in Calls :
        /\ Concurrent(c, d)
        /\ userId[c] = userId[d]
        /\ c \in Confirmed
        /\ d \in RejectedBooked

\* The calls issued so far have all returned and carry distinct user ids.
AllReturnedDistinct ==
    /\ Issued = Done
    /\ \A c, d \in Issued : c # d => userId[c] # userId[d]

\* C4: capacity exactness. Once M > capacity calls of distinct users have all
\* returned, exactly capacity of them are confirmed, the other M - capacity
\* are sold out and available_seats is 0.
C4_CapacityExactness ==
    (AllReturnedDistinct /\ Cardinality(Issued) > capacity) =>
        /\ Cardinality(Confirmed) = capacity
        /\ Cardinality(RejectedSoldOut) = Cardinality(Issued) - capacity
        /\ available_seats = 0

\* C4 witness: more calls than seats, all overlapping, all returned.
C4_Witness ==
    /\ AllReturnedDistinct
    /\ Cardinality(Issued) > capacity
    /\ \A c, d \in Issued : c # d => Concurrent(c, d)
    /\ Cardinality(RejectedSoldOut) >= 1

\* C5 (as claimed): the duplicate check comes before the capacity check. A
\* call that returns while its user already has a row returns "Already
\* Booked", and "Sold Out" goes only to users without a row.
C5_DuplicateCheckFirst ==
    [][\A c \in Calls :
         (pc[c] # "done" /\ pc'[c] = "done") =>
            /\ (RowsByUserId(bookings, userId[c]) # {}
                  => result'[c] = AlreadyBookedError)
            /\ (result'[c] = SoldOutError
                  => RowsByUserId(bookings, userId[c]) = {})]_vars

\* C6 (as claimed): idempotency. Two sequential calls of one user that has no
\* row yet, on a pool with at least one seat left and no other call in
\* between, end "Booking Successful" then "Already Booked", and the counter
\* drops by exactly 1.
C6_SequentialIdempotent ==
    \A c, d \in Calls :
        LET P == doneBefore[c] IN
        ( /\ c # d
          /\ userId[c] = userId[d]
          /\ {c, d} \subseteq Done
          /\ c \in doneBefore[d]
          /\ Issued = P \cup {c, d}
          /\ \A e \in P \cap Confirmed : userId[e] # userId[c]
          /\ SeatsAfter(P) >= 1 )
        => /\ result[c] = BookingSuccessful
           /\ result[d] = AlreadyBookedError
           /\ available_seats = SeatsAfter(P) - 1

\* C7 (as claimed): two or more overlapping calls of one user that has no row
\* yet, on a pool with at least one seat left, end with exactly one "Booking
\* Successful" and "Already Booked" for every other one.
C7_ConcurrentSameRequester ==
    \A S \in SUBSET Calls :
        LET P == Issued \ S IN
        ( /\ Cardinality(S) >= 2
          /\ S \subseteq Done
          /\ \A c, d \in S : userId[c] = userId[d]
          /\ \A c, d \in S : c # d => Concurrent(c, d)
          /\ \A c \in S : P \subseteq doneBefore[c]
          /\ \A c \in S, e \in P \cap Confirmed : userId[e] # userId[c]
          /\ SeatsAfter(P) >= 1 )
        => /\ Cardinality(S \cap Confirmed) = 1
           /\ Cardinality(S \cap RejectedBooked) = Cardinality(S) - 1

\* The calls between their SELECT ... FOR UPDATE and their commit or rollback.
InTransaction ==
    {c \in Calls : pc[c] \in {"seats_read", "booked_read", "updated", "inserted"}}

\* C8: mutual exclusion. At most one call is between its locking read and its
\* commit or rollback, that call holds the row lock, and no other call has
\* uncommitted writes to the counter or to bookings.
C8_MutualExclusion ==
    /\ Cardinality(InTransaction) <= 1
    /\ \A c \in InTransaction : lockHolder = c
    /\ \A c \in Calls \ InTransaction : wSeats[c] = {} /\ wRows[c] = {}

\* C8 witness: one call has decremented the counter in its transaction while
\* another call is waiting at its locking read.
C8_Witness ==
    \E c, d \in Calls : pc[c] = "updated" /\ pc[d] = "begin"

\* C9: atomic commit. Every step leaves the committed counter and the
\* committed rows both unchanged or decrements the counter and adds exactly
\* one row; a failed INSERT after the UPDATE changes neither.
C9_AtomicCommit ==
    [][\/ /\ available_seats' = available_seats
          /\ bookings' = bookings
       \/ /\ available_seats' = available_seats - 1
          /\ bookings \subseteq bookings'
          /\ Cardinality(bookings' \ bookings) = 1]_vars

\* C9 witness: one call failed at its INSERT after its UPDATE, a later call
\* committed, and the counter matches the rows.
C9_Witness ==
    /\ \E c \in Calls, d \in Confirmed :
          result[c] = TryAgainLater /\ c \in doneBefore[d]
    /\ available_seats = capacity - Cardinality(bookings)

\* C10: sequence numbers. The ids of the committed rows, in commit order, are
\* strictly increasing (hence unique and never reused, also after a release
\* or a failed INSERT), there is one per confirmed call, and every row of
\* bookings carries one of them.
C10_SequenceNumbers ==
    /\ \A i, j \in 1..Len(commitLog) : i < j => commitLog[i] < commitLog[j]
    /\ Len(commitLog) = Cardinality(Confirmed)
    /\ \A b \in bookings : \E i \in 1..Len(commitLog) : commitLog[i] = b.id
    /\ \A i \in 1..Len(commitLog) : commitLog[i] < nextId

\* C10 witness: a committed row was released and a row committed later is
\* still present.
C10_Witness ==
    /\ releaseResult = "RELEASED"
    /\ \E i, j \in 1..Len(commitLog) :
          /\ i < j
          /\ commitLog[i] \notin {b.id : b \in bookings}
          /\ commitLog[j] \in {b.id : b \in bookings}

\* The place of a row id in the commit order (0 when it was never committed).
CommitPosition(id) ==
    IF \E i \in 1..Len(commitLog) : commitLog[i] = id
      THEN CHOOSE i \in 1..Len(commitLog) : commitLog[i] = id
      ELSE 0

\* C11 (as claimed): event ordering. The messages on the channel are in the
\* order of their commits: their sequence values strictly increase and their
\* available values never go back up.
C11_EventOrdering ==
    \A i, j \in 1..Len(published) :
        i < j => /\ published[i].sequence < published[j].sequence
                 /\ published[i].available >= published[j].available

C13_EmissionIsolated ==
    [][\A c \in Calls :
         emitState'[c] # emitState[c] =>
            /\ result[c] = BookingSuccessful
            /\ result' = result
            /\ available_seats' = available_seats
            /\ bookings' = bookings]_vars

\* C13 witness: the publish of a confirmed call failed; the call is still
\* confirmed and its row is still there.
C13_Witness ==
    \E c \in Confirmed :
        /\ emitState[c] = "failed"
        /\ \E b \in bookings : b.id = committed[c].sequence

\* C14: release round trip. (1) A confirming step takes exactly one seat.
\* (2) A step that removes the row of a user is answered RELEASED, removes
\* only that row and gives the seat back, so the counter is what it was
\* before that user's allocation. (3) A call that returns for a user without
\* a row while a seat is free is confirmed. (4) When a user is confirmed
\* again after an earlier confirmed call, the new row id is larger than the
\* earlier one.
C14_ReleaseRoundTrip ==
    [][/\ \A c \in Calls :
            (c \notin Confirmed /\ result'[c] = BookingSuccessful) =>
                available_seats' = available_seats - 1
       /\ \A u \in Users :
            (RowsByUserId(bookings, u) # {} /\ RowsByUserId(bookings', u) = {}) =>
                /\ releaseResult' = "RELEASED"
                /\ available_seats' = available_seats + 1
                /\ bookings' = bookings \ RowsByUserId(bookings, u)
       /\ \A d \in Calls :
            ( /\ pc[d] # "done" /\ pc'[d] = "done"
              /\ RowsByUserId(bookings, userId[d]) = {}
              /\ available_seats >= 1 ) =>
                result'[d] = BookingSuccessful
       /\ \A c, d \in Calls :
            ( /\ c \in Confirmed /\ c \in doneBefore[d]
              /\ userId[c] = userId[d]
              /\ result'[d] = BookingSuccessful ) =>
                committed'[d].sequence > committed'[c].sequence]_vars

\* C14 witness: a user was confirmed, released and confirmed again by a later
\* call, and holds a row.
C14_Witness ==
    \E c, d \in Confirmed :
        /\ c \in doneBefore[d]
        /\ userId[c] = userId[d]
        /\ releaseResult = "RELEASED"
        /\ RowsByUserId(bookings, userId[d]) # {}

C16_InvalidRequestRejected ==
    /\ \A c \in Issued :
          userId[c] = EmptyUserId =>
             /\ c \notin InTransaction
             /\ lockHolder # c
             /\ result[c] \notin {BookingSuccessful, SoldOutError,
                                  AlreadyBookedError}
    /\ RowsByUserId(bookings, EmptyUserId) = {}

\* C17 (as claimed): every call that has returned has one of the three
\* outcomes "Booking Successful", "Sold Out", "Already Booked".
C17_ThreeOutcomes ==
    \A c \in Done :
        result[c] \in {BookingSuccessful, SoldOutError, AlreadyBookedError}

\* C17 (amended): definitive outcome. Under a fairly granted row lock every
\* issued call eventually returns, with "Booking Successful", "Sold Out",
\* "Already Booked" or, when a statement of its transaction failed, "Try
\* again later"; no call waits for the lock forever. A call that has
\* returned stays returned, so the property is stated as: again and again,
\* every call issued so far has returned.
C17_DefinitiveOutcome ==
    []<>(\A c \in Calls :
            \/ pc[c] = "idle"
            \/ /\ pc[c] = "done" /\ lockHolder # c
               /\ result[c] \in {BookingSuccessful, SoldOutError,
                                 AlreadyBookedError, TryAgainLater})

\* C17 witness: a call that had to wait for the lock while another call was
\* inside its transaction has returned, as have all other calls.
C17_Witness ==
    /\ Done = Calls
    /\ \E c, d \in Calls : Concurrent(c, d) /\ result[c] = TryAgainLater

\* ------------------------------------------------------------ user import
\* The requests whose user creation is in progress in Auth-Backend.
InProgress == {r \in BagToSet(reqs) : r.stage \in {"accepted", "inserted"}}

AtMostOneCreation ==
    /\ Cardinality(InProgress) <= 1
    /\ \A r \in InProgress : CopiesIn(r, reqs) = 1

\* Request r as it is once Auth-Backend has answered it with status.
AnsweredWith(r, status) == [r EXCEPT !.stage = "answered", !.status = status]

\* Request r is taken up by Auth-Backend in this step.
Handled(r) == r.stage = "sent" /\ CopiesIn(r, reqs') < CopiesIn(r, reqs)

\* Request r gets the answer status in this step.
Gets(r, status) ==
    CopiesIn(AnsweredWith(r, status), reqs') =
        CopiesIn(AnsweredWith(r, status), reqs) + 1

RejectedWhileBusy ==
    \A r \in BagToSet(reqs) :
        (Handled(r) /\ kv[r.job] = NoResponse /\ InProgress # {}) =>
            /\ Gets(r, Unavailable)
            /\ authUsers' = authUsers
            /\ InProgress' = InProgress

\* C18: Auth-Backend single concurrency. At most one user creation is in
\* progress at any time; a request whose key has no stored response and that
\* is taken up while a creation is in progress is answered 503, auth_users
\* untouched and the creation in progress undisturbed; the processing flag is
\* true exactly while a creation is in progress, so it is false again after
\* the creation returned 201, returned 409 or failed.
C18_SingleConcurrency ==
    /\ [](AtMostOneCreation /\ (processing <=> InProgress # {}))
    /\ [][RejectedWhileBusy]_vars

\* A request of one key has been answered 503 while the creation for
\* another key is in progress.
C18_Witness ==
    \E r \in BagToSet(reqs), q \in InProgress :
        /\ r.stage = "answered" /\ r.status = Unavailable
        /\ q.job # r.job

OneRowPerEmail == \A e \in Emails : authUsers[e] <= 1

\* A taken-up request whose key has the response stored(key) gets exactly
\* that response, and nothing is inserted or stored for it.
Replayed(stored) ==
    \A r \in BagToSet(reqs) :
        (Handled(r) /\ stored[r.job] # NoResponse) =>
            /\ Gets(r, stored[r.job])
            /\ authUsers' = authUsers
            /\ kv' = kv

\* C19 as stated: at most one auth_users row per normalized email, and every
\* request whose key had a response stored at some time gets that response
\* again, without an insert.
C19_StoredOnceReplayed == []OneRowPerEmail /\ [][Replayed(kvLog)]_vars

\* C19: the Idempotency-Key prevents duplicate creations. Under any
\* sequence of POST /users requests, repeated and overlapping ones included,
\* at most one auth_users row exists per normalized email, and every request
\* whose key has a response in the kv store (stored, and not yet expired)
\* gets that stored response, without an insert and without a new kv entry.
C19_NoDuplicateCreation == []OneRowPerEmail /\ [][Replayed(kv)]_vars

\* Two keys of one email: the first was answered 201 and, repeated, 201
\* again; the second was answered 409; the email has one row.
C19_Witness ==
    \E j, k \in Jobs :
        /\ j # k /\ jobStatus[j] # "NONE" /\ jobStatus[k] # "NONE"
        /\ jobEmail[j] = jobEmail[k]
        /\ kv[j] = Created /\ kv[k] = Conflict
        /\ authUsers[jobEmail[j]] = 1
        /\ CopiesIn(AnsweredWith(Request(j, FALSE), Created), reqs) = 2

RetryBounded ==
    \A j \in Jobs :
        /\ jobAttempts[j] <= MaxAttempts
        /\ authCalls[j] <= MaxAttempts
        /\ jobStatus[j] = "DLQ" => (jobAttempts[j] = MaxAttempts /\ queue[j] = 0)

\* The Auth-Backend call of job j fails in this step: the request the worker
\* awaits is lost, or its answer is neither 201 nor 409.
CallFails(j) ==
    /\ \E r \in BagToSet(reqs) :
           /\ r.job = j /\ r.awaited
           /\ ~(r.stage = "answered" /\ r.status \in {Created, Conflict})
    /\ \A q \in BagToSet(reqs') : ~(q.job = j /\ q.awaited)

FailureHandled ==
    \A j \in Jobs :
        /\ CallFails(j) <=> jobAttempts'[j] # jobAttempts[j]
        /\ CallFails(j) =>
               /\ jobAttempts'[j] = jobAttempts[j] + 1
               /\ IF jobAttempts'[j] < MaxAttempts
                  THEN /\ queue'[j] = queue[j] + 1
                       /\ jobStatus'[j] = jobStatus[j]
                  ELSE /\ queue'[j] = queue[j]
                       /\ jobStatus'[j] = "DLQ"

\* C20: bounded retry, then DLQ. Every failure of a job's Auth-Backend call
\* adds one to attempts; while the new count is below 5 the job is requeued
\* and keeps its status, and the failure that brings the count to 5 moves
\* the job to DLQ with no message left. No job is posted to Auth-Backend more
\* than 5 times and attempts never exceeds 5.
C20_BoundedRetry == []RetryBounded /\ [][FailureHandled]_vars

\* A job failed five times and is in DLQ while another one has been retried
\* and is queued again.
C20_Witness ==
    \E j, k \in Jobs :
        /\ jobStatus[j] = "DLQ" /\ jobAttempts[j] = MaxAttempts
        /\ authCalls[j] = MaxAttempts
        /\ jobStatus[k] = "IN_PROGRESS" /\ jobAttempts[k] \in 1..(MaxAttempts - 1)
        /\ queue[k] = 1

\* ------------------------------------------------------------ upload
InsertedJobs == {j \in Jobs : jobStatus[j] # "NONE"}

UploadDeduplicated ==
    /\ \A j, k \in InsertedJobs : j # k => jobEmail[j] # jobEmail[k]
    /\ \A j \in InsertedJobs : jobEmail[j] \notin usersIndex
    /\ counts.enqueued = Cardinality(InsertedJobs)

\* A job inserted in this step is enqueued for the row just read, which is
\* valid, new in this upload and not in users_index.
EnqueuedForGoodRow ==
    \A j \in Jobs :
        (jobStatus[j] = "NONE" /\ jobStatus'[j] # "NONE") =>
            /\ lastRow'.valid
            /\ jobEmail'[j] = normalizeEmail(lastRow'.email)
            /\ jobEmail'[j] \notin seen
            /\ jobEmail'[j] \notin usersIndex
            /\ queue'[j] = 1

\* C21: upload de-duplication. Whatever rows the CSV of one upload holds,
\* the jobs it enqueues have pairwise different normalized emails, none of
\* them in users_index; a job is inserted only for a valid row; and
\* counts.enqueued equals the number of jobs inserted.
C21_UploadDeduplication == []UploadDeduplicated /\ [][EnqueuedForGoodRow]_vars

\* A finished upload that met an invalid row, a repeated email, an email of
\* users_index and a new email.
C21_Witness ==
    /\ uploadStatus = "PROCESSING"
    /\ counts.invalid >= 1 /\ counts.duplicate_in_batch >= 1
    /\ counts.duplicate_historical >= 1 /\ counts.enqueued >= 1

\* ------------------------------------------------------------ rejections
\* Call c is rejected in this step.
Rejected(c) ==
    result[c] = NoResult /\ result'[c] \in {SoldOutError, AlreadyBookedError}

\* Call c takes a step of bookSeat that comes before its UPDATE.
ChecksOnly(c) ==
    /\ pc[c] \in {"idle", "begin", "seats_read", "booked_read"}
    /\ pc'[c] # pc[c]
    /\ pc'[c] # "updated"

RejectionIsNoOp ==
    \A c \in Calls :
        /\ ChecksOnly(c) => UNCHANGED <<available_seats, bookings, nextId>>
        /\ Rejected(c) =>
               /\ ChecksOnly(c)
               /\ wSeats[c] = {} /\ wRows[c] = {}
               /\ available_seats' = seatStatus[c]
               /\ commitLog' = commitLog

\* C22: rejected allocations are no-ops. A bookSeat call that ends in
\* "Sold Out" or "Already Booked" has executed no UPDATE and no INSERT, none
\* of its steps changes available_seats, the booking rows or the id
\* sequence, and available_seats at the rejection is the value the call read
\* when it entered its exclusive section.
C22_RejectionIsNoOp == [][RejectionIsNoOp]_vars

\* A call has been rejected while it overlapped with a confirmed one.
C22_Witness ==
    \E c, d \in Calls :
        /\ result[c] \in {SoldOutError, AlreadyBookedError}
        /\ result[d] = BookingSuccessful
        /\ Concurrent(c, d)

\* ------------------------------------------------------------ abandonment
\* The committed pool is whole, and a call that has ended holds neither the
\* row lock nor uncommitted writes.
PoolWhole ==
    /\ available_seats + Cardinality(bookings) = capacity
    /\ \A c \in Done :
           lockHolder # c /\ wSeats[c] = {} /\ wRows[c] = {}

\* C23: abandonment safety. Whenever callers stop waiting, before or after
\* their call took the row lock, the committed pool stays whole (counter and
\* rows agree, nothing uncommitted is left behind), every abandoned call
\* still ends with a commit or a rollback and an outcome, and the row lock
\* it may hold is released. An ended call stays ended, so the last part is
\* stated as: again and again, every call abandoned so far has ended.
C23_AbandonmentSafety ==
    /\ []PoolWhole
    /\ []<>(\A c \in abandoned :
               pc[c] = "done" /\ result[c] # NoResult /\ lockHolder # c)

\* An abandoned call has committed, and a call issued after it ended has
\* been answered.
C23_Witness ==
    \E c, d \in Calls :
        /\ c \in abandoned /\ result[c] = BookingSuccessful
        /\ d \notin abandoned /\ c \in doneBefore[d] /\ pc[d] = "done"

\* ------------------------------------------------------------ finished jobs
\* The requests of job j that are with Auth-Backend or on their way.
RequestsOf(j, bag) == {r \in BagToSet(bag) : r.job = j}

\* A step of the worker puts a message of job j on the queue.
Requeued(j) == workerVars' # workerVars /\ queue'[j] > queue[j]

\* A call to Auth-Backend is made for job j.
AuthCalled(j) ==
    \/ authCalls'[j] # authCalls[j]
    \/ \E r \in RequestsOf(j, reqs') : CopiesIn(r, reqs') > CopiesIn(r, reqs)

SucceededIsTerminal ==
    \A j \in Jobs :
        /\ jobStatus[j] = "SUCCEEDED" =>
              /\ jobStatus'[j] = "SUCCEEDED"
              /\ jobAttempts'[j] = jobAttempts[j]
              /\ ~Requeued(j)
        /\ jobStatus[j] \in {"SUCCEEDED", "DLQ"} => ~AuthCalled(j)

EmailedOnlyCreated ==
    /\ \A j \in Jobs :
           /\ emailsSent[j] <= 1
           /\ emailsSent[j] > 0 =>
                  jobStatus[j] = "SUCCEEDED" /\ kvLog[j] = Created
    /\ wpc = "email" =>
           jobStatus[wjob] = "SUCCEEDED" /\ kvLog[wjob] = Created

\* An email goes out only in the step after the 201 branch marked the job.
EmailAfterMark ==
    \A j \in Jobs :
        emailsSent'[j] # emailsSent[j] =>
            /\ wpc = "email" /\ wjob = j
            /\ jobStatus[j] = "SUCCEEDED"
            /\ emailsSent'[j] = 1

\* C25: welcome email only after creation. An email is sent for a job only
\* after Auth-Backend answered 201 for its key and the job was marked
\* SUCCEEDED; a job that got 409, only errors, or is in DLQ has no email; and
\* no job has more than one email, however many retries it took.
C25_EmailOnlyAfterCreation == []EmailedOnlyCreated /\ [][EmailAfterMark]_vars

\* One job got its email after a retry replayed the 201, one succeeded on a
\* 409 without an email.
C25_Witness ==
    \E j, d \in Jobs :
        /\ emailsSent[j] = 1 /\ jobAttempts[j] > 0 /\ authCalls[j] > 1
        /\ jobStatus[d] = "SUCCEEDED" /\ kvLog[d] = Conflict
        /\ emailsSent[d] = 0

\* ------------------------------------------------------------ job progress
\* C26: job progress. With a queue that keeps delivering and a worker of
\* concurrency 1, every enqueued job ends up SUCCEEDED or DLQ, whatever
\* happens to the other jobs: a job whose calls keep failing is requeued
\* behind the others and leaves after its fifth failure. A finished job stays
\* finished, so this is stated as: again and again, every job enqueued so far
\* is SUCCEEDED or DLQ.
C26_JobProgress ==
    []<>(\A j \in Jobs : jobStatus[j] \in {"NONE", "SUCCEEDED", "DLQ"})

\* A job was created at its first call while another one, which failed
\* several times, is still waiting for a retry.
C26_Witness ==
    \E j, d \in Jobs :
        /\ jobStatus[d] = "IN_PROGRESS" /\ jobAttempts[d] >= 2
        /\ queue[d] > 0
        /\ jobStatus[j] = "SUCCEEDED" /\ jobAttempts[j] = 0

\* ------------------------------------------------------------ thermostat
\* The devices are as the claim says they are once update(currentTemp) has
\* returned.
UpdateDecision ==
    lastCall = "update" =>
        /\ TooCold(currentTemp) => heaterOn /\ ~coolerOn
        /\ TooWarm(currentTemp) => coolerOn /\ ~heaterOn
        /\ ~TooCold(currentTemp) /\ ~TooWarm(currentTemp) =>
               ~heaterOn /\ ~coolerOn

\* C27: the decision of update(t). After update(t) returns, the heater is on
\* and the cooler off if t < targetTemp - hysteresis, the cooler is on and
\* the heater off if t > targetTemp + hysteresis, and both are off otherwise,
\* whatever the devices' states were before the call.
C27_UpdateDecision == UpdateDecision

\* C28: heater/cooler exclusion. With a heater and a cooler that start off
\* and are switched by the Thermostat only, getStatus never reports heaterOn
\* and coolerOn both true, after any sequence of setTargetTemperature and
\* update calls.
C28_NeverBothOn == ~(getStatus.heaterOn /\ getStatus.coolerOn)

\* The cooler runs after an update and the target was set afterwards.
C28_Witness ==
    /\ coolerOn /\ ~heaterOn
    /\ lastCall = "setTargetTemperature"
    /\ currentTemp # InitialCurrentTemp

TargetInRange == minTemp <= targetTemp /\ targetTemp <= maxTemp

\* A change of targetTemp sets it to a value of the range and changes
\* neither currentTemp nor a device.
SetTargetClamps ==
    targetTemp' # targetTemp =>
        /\ minTemp <= targetTemp' /\ targetTemp' <= maxTemp
        /\ UNCHANGED <<currentTemp, heaterOn, coolerOn>>

\* C29: target clamping. For a Thermostat constructed with bounds
\* minTemp <= maxTemp, targetTemp lies within [minTemp, maxTemp] in every
\* reachable state, the one right after construction included, and
\* setTargetTemperature sets it to a value of that range without changing
\* currentTemp or a device.
C29_TargetClamped == []TargetInRange /\ [][SetTargetClamps]_vars
====
